---- MODULE Spec2Model ----
(***************************************************************************)
(* Model of the PipeWire screen-capture session of src/debug.cpp           *)
(* (screen_cast_session, on_stream_param_changed, on_process,              *)
(* vidcap_screen_pw_init, vidcap_screen_pw_grab).                          *)
(*                                                                         *)
(* Two threads act on one session: the PipeWire loop thread, which runs    *)
(* the stream callbacks, and the consumer thread, which calls grab.        *)
(* blank_frames is a std::vector; on_process touches it under session.mut, *)
(* grab touches it without the mutex.  The vector's storage and its end    *)
(* pointer are therefore separate variables, and each vector operation is  *)
(* split where the other thread's accesses can fall between its own:       *)
(* between the access to the element and the update of the end pointer,    *)
(* which is made either from the value read before or from memory read     *)
(* again.  Steps that touch only state of one thread are joined with the   *)
(* next step of that thread that touches shared state.                     *)
(***************************************************************************)
EXTENDS Integers, Sequences, FiniteSets, TLC

\* ---------------------------------------------------------------- constants
QUEUE_SIZE == 3
\* faulty variant: grab waits half as long
GrabTimeoutHalved == 500 \div 2
\* the timeout grab passes to timed_pop
GRAB_TIMEOUT_MS == 500

\* ------------------------------------------------------------------- bounds
\* largest width / height the service negotiates or reports as crop
MaxDim == 2
\* slots of the vector's storage (push_back beyond it would reallocate)
MaxVec == 3
\* granularity of the consumer's clock while it waits in timed_pop
TickMs == 250

NULL == 0
\* a frame id names one of the session's frames; a frame that on_process
\* replaces by a new allocation keeps its id (freed records the free)
FrameIds == 1..QUEUE_SIZE
\* widths and heights used: the smallest and the largest
Dims == {1, MaxDim}
\* image sizes the service negotiates
Sizes == {[width |-> n, height |-> n] : n \in Dims}
FREE == [width |-> -1, height |-> -1]
\* vf_alloc(1): one tile, no data
BlankFrame == [width |-> 0, height |-> 0]
NoCrop == [width |-> 0, height |-> 0]

VARIABLES
    in_flight_frame,  \* session.in_flight_frame: frame id or NULL
    mut,              \* session.mut: "free" or the thread holding it
    blank_data,       \* storage of session.blank_frames: slot -> frame id / NULL
    blank_finish,     \* end pointer of session.blank_frames (its size)
    sending_frames,   \* session.sending_frames: sequence of frame ids, oldest first
    desc,             \* session.desc: [width, height]
    raw_size,         \* session.pw.format.info.raw.size
    crop_opt,         \* session.user_options.crop
    frames,           \* heap: frame id -> tile size of the video_frame (or FREE)
    pc_p,             \* position of the PipeWire loop thread
    next_frame,       \* on_process local unique_frame
    p_end,            \* end pointer on_process read for empty()/back()
    pw_owned,         \* buffers dequeued minus buffers queued back
    pc_g,             \* position of the consumer thread
    g_end,            \* end pointer grab read for push_back
    waited,           \* ms the consumer has waited in timed_pop
    grab_ret,         \* pointer the last grab returned (dead once grab is called again)
    freed,            \* ghost: a frame has been freed since init
    reallocated,      \* ghost: line 686 has run for the frame in next_frame
    fmt_session,      \* format negotiation: descriptor, pw.format and the reply sent
    conv,             \* conversion: the buffer, the crop and the frame produced
    life              \* lifecycle: init, the loop thread, the destructor

\* state the streaming steps read and write
streamVars == <<in_flight_frame, mut, blank_data, blank_finish, sending_frames,
                desc, raw_size, frames, pc_p, next_frame, p_end, pw_owned, pc_g,
                g_end, waited, grab_ret, freed, reallocated>>
\* state no streaming step writes: the crop option, and the state of format
\* negotiation, conversion and lifecycle, each stepped by its own specification
staticVars == <<crop_opt, fmt_session, conv, life>>

vars == <<streamVars, staticVars>>

captureVars == <<pc_p, next_frame, p_end, pw_owned, reallocated>>
consumerVars == <<pc_g, g_end, waited, grab_ret, in_flight_frame>>
formatVars == <<desc, raw_size>>
poolVars == <<blank_data, blank_finish>>

\* ------------------------------------------------------------------ helpers
Min(a, b) == IF a < b THEN a ELSE b

\* slots that belong to the vector: those below its end pointer and, while
\* grab is inside push_back, the slot it has constructed the element in
PoolSlots ==
    (1..blank_finish) \cup (IF pc_g = "inc" THEN {g_end + 1} ELSE {})
PoolFrames == {blank_data[i] : i \in PoolSlots} \ {NULL}
QueueFrames == {sending_frames[i] : i \in DOMAIN sending_frames}
InFlightFrames == {in_flight_frame} \ {NULL}
FillingFrames == {next_frame} \ {NULL}
LiveFrames == {f \in FrameIds : frames[f] # FREE}

\* number of places that own frame f
Owners(f) ==
    Cardinality({i \in PoolSlots : blank_data[i] = f})
    + Cardinality({i \in DOMAIN sending_frames : sending_frames[i] = f})
    + (IF in_flight_frame = f THEN 1 ELSE 0)
    + (IF next_frame = f THEN 1 ELSE 0)

\* number of frames the four owners hold together
FramesHeld ==
    Cardinality({i \in PoolSlots : blank_data[i] # NULL})
    + Len(sending_frames)
    + Cardinality(InFlightFrames)
    + Cardinality(FillingFrames)

\* vf_alloc_desc_data(desc)
vf_alloc_desc_data(d) == [width |-> d.width, height |-> d.height]

\* video_desc_from_frame(f)
video_desc_from_frame(f) == [width |-> frames[f].width, height |-> frames[f].height]

\* video_desc_eq(a, b)
video_desc_eq(a, b) == a.width = b.width /\ a.height = b.height

\* spa_meta_region_is_valid: a crop region with a non-zero size
spa_meta_region_is_valid(meta) == meta.width # 0 /\ meta.height # 0

\* crop metadata a delivered buffer can carry: none, a region, or a
\* region whose width or height is zero
NoMeta == [present |-> FALSE, width |-> 0, height |-> 0]
CropMetas ==
    {NoMeta, [present |-> TRUE, width |-> 1, height |-> 0]}
    \cup {[present |-> TRUE, width |-> n, height |-> n] : n \in {0} \cup Dims}

\* on_process, lines 670-675: the crop region used for this buffer
crop_region(meta) ==
    IF crop_opt /\ meta.present /\ spa_meta_region_is_valid(meta)
    THEN [width |-> meta.width, height |-> meta.height]
    ELSE NoCrop

\* on_process, lines 677-682: session.desc after the crop region is read
DescAfterCrop(crop) ==
    IF crop # NoCrop THEN [width |-> crop.width, height |-> crop.height] ELSE desc

\* on_process, line 684: whether next_frame is replaced by a new allocation
NeedsRealloc(f, d) == ~video_desc_eq(video_desc_from_frame(f), d)

\* pw_frame_to_uv_frame_memcpy, lines 597-607 and 628-629: the size copied
CopySize(size, crop) ==
    IF crop # NoCrop THEN [width |-> crop.width, height |-> crop.height] ELSE size

\* ------------------------------------------------- states as constructed
\* spa_fraction values the service reports as framerate / max_framerate
Fraction(n, d) == [num |-> n, denom |-> d]
Framerates == {Fraction(0, 1), Fraction(30, 1)}
MaxFramerates == {Fraction(0, 1), Fraction(25, 1)}

\* video_desc desc = {} (line 458); PROGRESSIVE is the zero of its enum
NewDesc ==
    [width |-> 0, height |-> 0, fps |-> Fraction(0, 1), color_spec |-> "NONE",
     interlacing |-> "PROGRESSIVE", tile_count |-> 0]

\* what one invocation of the handler passes to pw_stream_update_params
NoParams == [n_params |-> 0]

\* the part of the session on_stream_param_changed works on, as constructed
NewFormatSession ==
    [desc |-> NewDesc,
     media_type |-> "unknown", media_subtype |-> "unknown",
     raw |-> [format |-> "unknown", width |-> 0, height |-> 0,
              framerate |-> Fraction(0, 1), max_framerate |-> Fraction(0, 1)],
     call |-> [null |-> FALSE, id |-> "none"],
     out |-> NoParams]

\* no buffer under conversion
NoConversion == [done |-> FALSE]
\* the session is up: init has returned, done has not been called
NoLife == [pc |-> "returned"]

\* ---------------------------------------------------------------------- init
\* vidcap_screen_pw_init, lines 901-902: QUEUE_SIZE blank frames
InitFrames == [f \in FrameIds |-> BlankFrame]
InitBlank == [i \in 1..MaxVec |-> IF i <= QUEUE_SIZE THEN i ELSE NULL]

\* the session as vidcap_screen_pw_init leaves it for streaming
StreamInit ==
    /\ in_flight_frame = NULL
    /\ mut = "free"
    /\ blank_data = InitBlank
    /\ blank_finish = QUEUE_SIZE
    /\ sending_frames = <<>>
    /\ desc = [width |-> 0, height |-> 0]
    /\ raw_size = [width |-> 0, height |-> 0]
    /\ crop_opt \in BOOLEAN
    /\ frames = InitFrames
    /\ pc_p = "idle"
    /\ next_frame = NULL
    /\ p_end = 0
    /\ pw_owned = 0
    /\ pc_g = "idle"
    /\ g_end = 0
    /\ waited = 0
    /\ grab_ret = NULL
    /\ freed = FALSE
    /\ reallocated = FALSE

Init ==
    /\ StreamInit
    /\ fmt_session = NewFormatSession
    /\ conv = NoConversion
    /\ life = NoLife

\* ------------------------------------------------ PipeWire loop thread
\* the stream delivers buffers once a format has been negotiated
negotiated == raw_size.width # 0

\* faulty variant: the handler resizes every frame of the pool at once
on_stream_param_changed_eager(size) ==
    /\ pc_p = "idle"
    /\ raw_size' = size
    /\ desc' = [width |-> size.width, height |-> size.height]
    /\ frames' = [f \in FrameIds |->
                     IF f \in {blank_data[i] : i \in 1..blank_finish}
                     THEN vf_alloc_desc_data(size) ELSE frames[f]]
    /\ freed' = TRUE
    /\ UNCHANGED <<in_flight_frame, mut, poolVars, sending_frames, staticVars,
                   captureVars, pc_g, g_end, waited, grab_ret>>

\* on_stream_param_changed, lines 517-590, for a video/raw format of this size
on_stream_param_changed(size) ==
    /\ pc_p = "idle"
    /\ raw_size' = size
    /\ desc' = [width |-> size.width, height |-> size.height]
    /\ UNCHANGED <<in_flight_frame, mut, poolVars, sending_frames, staticVars,
                   frames, captureVars, pc_g, g_end, waited, grab_ret, freed>>

\* faulty variant: the buffer is not queued back
QueueBufferForgotten(owned) == owned

\* pw_stream_queue_buffer: the buffer goes back to the service
QueueBuffer(owned) == owned - 1

\* on_process, lines 640-648: pw_stream_dequeue_buffer returns a buffer whose
\* chunk is missing or empty
DequeueEmpty ==
    /\ pc_p = "idle"
    /\ negotiated
    /\ pw_owned' = pw_owned + 1
    /\ pc_p' = "empty"
    /\ UNCHANGED <<in_flight_frame, mut, poolVars, sending_frames, formatVars,
                   staticVars, frames, next_frame, p_end, pc_g, g_end, waited,
                   grab_ret, freed, reallocated>>

\* lines 650-654: the buffer without payload is queued back and skipped
DropEmpty ==
    /\ pc_p = "empty"
    /\ pw_owned' = QueueBuffer(pw_owned)
    /\ pc_p' = "idle"
    /\ UNCHANGED <<in_flight_frame, mut, poolVars, sending_frames, formatVars,
                   staticVars, frames, next_frame, p_end, pc_g, g_end, waited,
                   grab_ret, freed, reallocated>>

\* faulty variant: with an empty vector on_process goes on with a frame all the same
BlankTakenAnyway(e) == IF e = 0 THEN 1 ELSE blank_data[e]

\* lines 657-659: the frame on_process takes from the vector whose end
\* pointer it read as e: none when empty(), else the one moved out of back()
BlankTaken(e) == IF e = 0 THEN NULL ELSE blank_data[e]

\* lines 640-659: a buffer with payload is dequeued; session.mut is locked,
\* empty() is tested and blank_frames.back() is moved into next_frame
AcquireBlank ==
    /\ pc_p = "idle"
    /\ negotiated
    /\ pw_owned' = pw_owned + 1
    /\ mut = "free"
    /\ mut' = "pw"
    /\ p_end' = blank_finish
    /\ next_frame' = BlankTaken(blank_finish)
    /\ blank_data' = IF blank_finish = 0 THEN blank_data
                     ELSE [blank_data EXCEPT ![blank_finish] = NULL]
    /\ pc_p' = "pop"
    /\ UNCHANGED <<in_flight_frame, blank_finish, sending_frames, formatVars,
                   staticVars, frames, pc_g, g_end, waited, grab_ret, freed,
                   reallocated>>

\* line 660, pop_back(): the end pointer is decremented (from the value read
\* before, or from memory read again) and the element it then points at is
\* destroyed; nothing is popped when the vector was empty.  Line 662 unlocks.
PopBack(reread) ==
    /\ mut' = "free"
    /\ p_end' = 0
    /\ IF p_end = 0
       THEN UNCHANGED <<blank_finish, blank_data>>
       ELSE LET old == IF reread THEN blank_finish ELSE p_end
            IN  /\ blank_finish' = old - 1
                /\ blank_data' = [blank_data EXCEPT ![old] = NULL]

\* the frame pop_back destroys: the element at the end it decrements from
PopDestroys(reread) ==
    IF p_end = 0 THEN NULL
    ELSE blank_data[IF reread THEN blank_finish ELSE p_end]

\* lines 660-668: pop_back, unlock; no frame was taken, so the buffer is
\* queued back and skipped
DropNoBlank(reread) ==
    /\ pc_p = "pop"
    /\ next_frame = NULL
    /\ PopBack(reread)
    /\ frames' = IF PopDestroys(reread) # NULL
                 THEN [frames EXCEPT ![PopDestroys(reread)] = FREE] ELSE frames
    /\ freed' = (freed \/ PopDestroys(reread) # NULL)
    /\ pw_owned' = QueueBuffer(pw_owned)
    /\ pc_p' = "idle"
    /\ UNCHANGED <<in_flight_frame, sending_frames, formatVars, staticVars,
                   next_frame, pc_g, g_end, waited, grab_ret, reallocated>>

\* lines 660-693: pop_back, unlock; read the crop region, update desc, replace
\* the frame when its shape differs from desc, convert the buffer into it
FillFrame(reread, meta) ==
    /\ pc_p = "pop"
    /\ next_frame # NULL
    /\ PopBack(reread)
    /\ LET crop == crop_region(meta)
           d == DescAfterCrop(crop)
           realloc == NeedsRealloc(next_frame, d)
           gone == PopDestroys(reread)
           heap == IF gone # NULL THEN [frames EXCEPT ![gone] = FREE] ELSE frames
       IN  /\ desc' = d
           /\ frames' = [heap EXCEPT ![next_frame] = CopySize(raw_size, crop)]
           /\ freed' = (freed \/ realloc \/ gone # NULL)
           /\ reallocated' = realloc
    /\ pc_p' = "push"
    /\ UNCHANGED <<in_flight_frame, sending_frames, raw_size, staticVars,
                   next_frame, pw_owned, pc_g, g_end, waited, grab_ret>>

\* synchronized_queue::push: waits while the queue is full, then appends
QueuePush(q, f) == Append(q, f)
QueueCanPush(q) == Len(q) < QUEUE_SIZE

\* lines 695-696: push the frame, queue the buffer back
PushFrame ==
    /\ pc_p = "push"
    /\ QueueCanPush(sending_frames)
    /\ sending_frames' = QueuePush(sending_frames, next_frame)
    /\ next_frame' = NULL
    /\ reallocated' = FALSE
    /\ pw_owned' = QueueBuffer(pw_owned)
    /\ pc_p' = "idle"
    /\ UNCHANGED <<in_flight_frame, mut, poolVars, formatVars, staticVars, frames,
                   p_end, pc_g, g_end, waited, grab_ret, freed>>

\* ------------------------------------------------------ consumer thread
\* faulty variant: grab does not give the in-flight frame back before it pops
GrabRecycleSkipped ==
    /\ pc_g = "idle"
    /\ in_flight_frame # NULL
    /\ waited' = 0
    /\ grab_ret' = NULL
    /\ pc_g' = "wait"
    /\ UNCHANGED <<in_flight_frame, mut, poolVars, sending_frames, formatVars,
                   staticVars, frames, captureVars, g_end, freed>>

\* vidcap_screen_pw_grab, lines 957-958, push_back first half: the in-flight
\* frame is move-constructed into the slot at the vector's end (no lock taken)
GrabRecycle ==
    /\ pc_g = "idle"
    /\ in_flight_frame # NULL
    /\ blank_finish < MaxVec
    /\ g_end' = blank_finish
    /\ blank_data' = [blank_data EXCEPT ![blank_finish + 1] = in_flight_frame]
    /\ in_flight_frame' = NULL
    /\ grab_ret' = NULL
    /\ pc_g' = "inc"
    /\ UNCHANGED <<mut, blank_finish, sending_frames, formatVars, staticVars, frames,
                   captureVars, waited, freed>>

\* line 958, push_back second half: the end pointer is incremented (from the
\* value read before, or from memory read again)
GrabFinishPush(reread) ==
    /\ pc_g = "inc"
    /\ blank_finish' = (IF reread THEN blank_finish ELSE g_end) + 1
    /\ g_end' = 0
    /\ waited' = 0
    /\ pc_g' = "wait"
    /\ UNCHANGED <<in_flight_frame, mut, blank_data, sending_frames, formatVars,
                   staticVars, frames, captureVars, grab_ret, freed>>

\* line 957: no frame is in flight, grab goes straight to timed_pop
GrabNoRecycle ==
    /\ pc_g = "idle"
    /\ in_flight_frame = NULL
    /\ waited' = 0
    /\ grab_ret' = NULL
    /\ pc_g' = "wait"
    /\ UNCHANGED <<in_flight_frame, mut, poolVars, sending_frames, formatVars,
                   staticVars, frames, captureVars, g_end, freed>>

\* synchronized_queue::timed_pop: the head is moved out as soon as there is one
QueueCanPop(q) == q # <<>>
QueueFront(q) == Head(q)
QueueRest(q) == Tail(q)
\* synchronized_queue::timed_pop gives up once the timeout has elapsed
TimedOut(ms, timeout) == ms >= timeout

\* faulty variant: grab drains the queue and returns the newest frame
GrabPopLatest ==
    /\ pc_g = "wait"
    /\ QueueCanPop(sending_frames)
    /\ in_flight_frame' = sending_frames[Len(sending_frames)]
    /\ sending_frames' = <<>>
    /\ grab_ret' = in_flight_frame'
    /\ waited' = 0
    /\ pc_g' = "idle"
    /\ UNCHANGED <<mut, poolVars, formatVars, staticVars, frames, captureVars, g_end,
                   freed>>

\* lines 962-963: timed_pop move-assigns the head to in_flight_frame (which
\* frees a frame in_flight_frame still held); grab returns in_flight_frame
GrabPop ==
    /\ pc_g = "wait"
    /\ QueueCanPop(sending_frames)
    /\ in_flight_frame' = QueueFront(sending_frames)
    /\ sending_frames' = QueueRest(sending_frames)
    /\ frames' = IF in_flight_frame # NULL
                 THEN [frames EXCEPT ![in_flight_frame] = FREE] ELSE frames
    /\ freed' = (freed \/ in_flight_frame # NULL)
    /\ grab_ret' = in_flight_frame'
    /\ waited' = 0
    /\ pc_g' = "idle"
    /\ UNCHANGED <<mut, poolVars, formatVars, staticVars, captureVars, g_end>>

\* line 962: time passes while timed_pop waits on the empty queue
GrabTick ==
    /\ pc_g = "wait"
    /\ ~QueueCanPop(sending_frames)
    /\ ~TimedOut(waited, GRAB_TIMEOUT_MS)
    /\ waited' = Min(waited + TickMs, GRAB_TIMEOUT_MS)
    /\ UNCHANGED <<in_flight_frame, mut, poolVars, sending_frames, formatVars,
                   staticVars, frames, captureVars, pc_g, g_end, grab_ret, freed>>

\* lines 962-963: timed_pop times out, in_flight_frame stays empty
GrabTimeout ==
    /\ pc_g = "wait"
    /\ ~QueueCanPop(sending_frames)
    /\ TimedOut(waited, GRAB_TIMEOUT_MS)
    /\ grab_ret' = in_flight_frame
    /\ waited' = 0
    /\ pc_g' = "idle"
    /\ UNCHANGED <<in_flight_frame, mut, poolVars, sending_frames, formatVars,
                   staticVars, frames, captureVars, g_end, freed>>

\* ------------------------------------------------------------ specification
Next ==
    \/ \E size \in Sizes : on_stream_param_changed(size)
    \/ DequeueEmpty
    \/ DropEmpty
    \/ AcquireBlank
    \/ \E reread \in BOOLEAN : DropNoBlank(reread)
    \/ \E reread \in BOOLEAN, meta \in CropMetas : FillFrame(reread, meta)
    \/ PushFrame
    \/ GrabRecycle
    \/ \E reread \in BOOLEAN : GrabFinishPush(reread)
    \/ GrabNoRecycle
    \/ GrabPop
    \/ GrabTick
    \/ GrabTimeout

Spec == Init /\ [][Next]_vars

TypeOK ==
    /\ in_flight_frame \in FrameIds \cup {NULL}
    /\ mut \in {"free", "pw", "consumer"}
    /\ blank_finish \in 0..MaxVec
    /\ Len(sending_frames) <= QUEUE_SIZE
    /\ pw_owned \in -1..2
    /\ waited \in 0..GRAB_TIMEOUT_MS

\* ------------------------------------------------------ format negotiation
\* pixel formats the stream offers (start_pipewire, lines 785-792), three of them
Formats == {"RGBA", "BGRx", "UYVY"}

\* uv_codec_from_pw_fmt: the codec of a PipeWire pixel format
uv_codec_from_pw_fmt(f) == IF f = "UYVY" THEN "UYVY" ELSE "RGBA"

\* vc_get_linesize: bytes of a line of this many pixels (UYVY packs two
\* pixels into a block of four bytes)
vc_get_linesize(width, codec) ==
    IF codec = "UYVY" THEN ((width + 1) \div 2) * 4 ELSE width * 4

\* the spa_pod arguments the service can pass to the handler
Pods ==
    [media_type : {"video", "audio"}, media_subtype : {"raw", "mjpg"},
     format : Formats, width : Dims, height : Dims,
     framerate : Framerates, max_framerate : MaxFramerates]
ParamIds == {"Format", "Props"}

\* faulty variant: the media type is not looked at
any_media(type, subtype) == TRUE

\* lines 527-528: the format is video/raw
is_video_raw(type, subtype) == type = "video" /\ subtype = "raw"

\* faulty variant: the maximum rate is preferred to the fixed rate
desc_fps_max_first(framerate, max_framerate) ==
    IF max_framerate.num # 0 THEN max_framerate
    ELSE IF framerate.num # 0 THEN framerate
    ELSE Fraction(60, 1)

\* lines 541-553: the frame rate of the descriptor
desc_fps(framerate, max_framerate) ==
    IF framerate.num # 0 THEN framerate
    ELSE IF max_framerate.num # 0 THEN max_framerate
    ELSE Fraction(60, 1)

\* lines 560-589: the buffer parameters (and, with cropping enabled, the
\* request for crop metadata) sent with pw_stream_update_params
buffer_params(d, crop) ==
    [n_params |-> IF crop THEN 2 ELSE 1,
     buffers |-> <<2, 2, 10>>, blocks |-> 1,
     size |-> vc_get_linesize(d.width, d.color_spec) * d.height,
     stride |-> vc_get_linesize(d.width, d.color_spec),
     meta_crop |-> crop]

\* on_stream_param_changed, lines 517-590: the session after the handler has
\* run on (id, param); param is a pod, null is a null pointer
stream_param_changed(s, null, id, pod) ==
    LET called == [s EXCEPT !.call = [null |-> null, id |-> id], !.out = NoParams]
        parsed == [called EXCEPT !.media_type = pod.media_type,
                                 !.media_subtype = pod.media_subtype]
        d == [width |-> pod.width, height |-> pod.height,
              fps |-> desc_fps(pod.framerate, pod.max_framerate),
              color_spec |-> uv_codec_from_pw_fmt(pod.format),
              interlacing |-> "PROGRESSIVE", tile_count |-> 1]
    IN  IF null \/ id # "Format" THEN called
        ELSE IF ~is_video_raw(pod.media_type, pod.media_subtype) THEN parsed
        ELSE [parsed EXCEPT
                !.raw = [format |-> pod.format, width |-> pod.width,
                         height |-> pod.height, framerate |-> pod.framerate,
                         max_framerate |-> pod.max_framerate],
                !.desc = d,
                !.out = buffer_params(d, crop_opt)]

\* the loop thread calls the handler
ParamChanged(null, id, pod) ==
    /\ fmt_session' = stream_param_changed(fmt_session, null, id, pod)
    /\ UNCHANGED <<streamVars, crop_opt, conv, life>>

FormatNext ==
    \E null \in BOOLEAN, id \in ParamIds, pod \in Pods : ParamChanged(null, id, pod)

FormatSpec == Init /\ [][FormatNext]_vars

\* ------------------------------------------------------------- conversion
\* offsets of the chunk inside the mapped buffer
ChunkOffsets == {0, 4}

\* crop metadata of a buffer: absent, or a region at (x, y) of size
\* width x height (any of them possibly zero, the region inside the image)
Regions(w, h) ==
    {[present |-> TRUE, x |-> x, y |-> y, width |-> cw, height |-> ch] :
        x \in 0..(w - 1), y \in 0..(h - 1), cw \in 0..w, ch \in 0..h}
NoRegionMeta == [present |-> FALSE, x |-> 0, y |-> 0, width |-> 0, height |-> 0]
InImage(m, w, h) == m.x + m.width <= w /\ m.y + m.height <= h

\* a delivered buffer together with the negotiated format: the chunk starts
\* at offset, its lines are line_bytes apart (the line of the image plus
\* padding) and may be followed by further bytes, and the stride the chunk
\* reports is that of its lines or 0
Buffers ==
    UNION {UNION {
        {[format |-> f, width |-> w, height |-> h, offset |-> o,
          chunk_size |-> (vc_get_linesize(w, uv_codec_from_pw_fmt(f)) + pad) * h
                         + after,
          stride |-> IF zero THEN 0
                     ELSE vc_get_linesize(w, uv_codec_from_pw_fmt(f)) + pad,
          meta |-> m] :
            f \in Formats, o \in ChunkOffsets, pad \in {0, 4},
            after \in {0, 4}, zero \in BOOLEAN,
            m \in {r \in Regions(w, h) : InImage(r, w, h)} \cup {NoRegionMeta}}
        : w \in Dims} : h \in Dims}

\* pixels that share one block of bytes, and the bytes of the block
block_pixels(codec) == IF codec = "UYVY" THEN 2 ELSE 1
block_bytes(codec) == 4

\* where pixel (col, row) of the source image lies: the byte its block
\* starts at and its place in the block
SourcePixel(b, stride, col, row) ==
    LET codec == uv_codec_from_pw_fmt(b.format)
    IN  [byte |-> b.offset + stride * row
                  + (col \div block_pixels(codec)) * block_bytes(codec),
         sub |-> col % block_pixels(codec)]

\* faulty variant: the region of the metadata is used although it is not valid
meta_region_unchecked(meta) ==
    IF crop_opt /\ meta.present THEN meta ELSE NoRegionMeta

\* on_process, lines 670-675: the crop region passed to the converter
\* (NoRegionMeta for nullptr)
meta_region(meta) ==
    IF crop_opt /\ meta.present /\ spa_meta_region_is_valid(meta)
    THEN meta ELSE NoRegionMeta

\* faulty variant: the chunk size is divided by the height of the crop region
used_stride_crop_height(b) ==
    IF b.stride # 0 THEN b.stride
    ELSE IF crop_opt /\ b.meta.present /\ spa_meta_region_is_valid(b.meta)
    THEN b.chunk_size \div b.meta.height
    ELSE b.chunk_size \div b.height

\* lines 609-610: the stride used
used_stride(b) == IF b.stride = 0 THEN b.chunk_size \div b.height ELSE b.stride

\* faulty variant: no format has its channels swapped
swap_never(fmt) == FALSE

\* line 614: the formats whose red and blue channels are swapped
needs_swap(fmt) == fmt \in {"BGRA", "BGRx"}

\* memcpy(dst, src, n): for each of the n bytes written, the address of the
\* source byte it is copied from
memcpy(src, n) == [k \in 0..(n - 1) |-> src + k]

\* vc_copylineRGBA(dst, src, len, rshift, gshift, bshift): for each byte
\* written, the address of the source byte it comes from; of each pixel of
\* four bytes the first source byte goes to the byte of rshift, the second
\* to that of gshift, the third to that of bshift, and the byte left over
\* (-1) is not taken from the source
vc_copylineRGBA(src, len, rshift, gshift, bshift) ==
    [k \in 0..(len - 1) |->
        LET pixel == src + 4 * (k \div 4)
        IN  CASE k % 4 = rshift \div 8 -> pixel
              [] k % 4 = gshift \div 8 -> pixel + 1
              [] k % 4 = bshift \div 8 -> pixel + 2
              [] OTHER -> -1]

\* pw_frame_to_uv_frame_memcpy, lines 592-631: what the converter writes
\* into the frame: the tile's size and, for every line of the tile, the
\* byte of the mapped buffer its first byte is copied (or swapped) from
\* and where each of its bytes comes from
pw_frame_to_uv_frame_memcpy(b, crop) ==
    LET codec == uv_codec_from_pw_fmt(b.format)
        width == IF crop.present THEN crop.width ELSE b.width
        height == IF crop.present THEN crop.height ELSE b.height
        start_x == IF crop.present THEN crop.x ELSE 0
        start_y == IF crop.present THEN crop.y ELSE 0
        stride == used_stride(b)
        linesize == vc_get_linesize(width, codec)
        skip == vc_get_linesize(start_x, codec)
    IN  [width |-> width, height |-> height,
         data_len |-> linesize * height,
         linesize |-> linesize,
         stride |-> stride,
         swap_red_blue |-> needs_swap(b.format),
         src_p |-> [i \in 0..(height - 1) |->
                        b.offset + skip + stride * (i + start_y)],
         dst_p |-> [i \in 0..(height - 1) |-> linesize * i],
         data |-> [i \in 0..(height - 1) |->
                      LET src_p == b.offset + skip + stride * (i + start_y)
                      IN  IF needs_swap(b.format)
                          THEN vc_copylineRGBA(src_p, linesize, 16, 8, 0)
                          ELSE memcpy(src_p, linesize)]]

\* faulty variant: the descriptor takes the size of the region passed on,
\* also when none is passed on
crop_desc_always(d, crop) == [width |-> crop.width, height |-> crop.height]

\* on_process, lines 677-682: session.desc after the crop region was read
crop_desc(d, crop) ==
    IF crop.present THEN [width |-> crop.width, height |-> crop.height] ELSE d

\* session.desc when the buffer arrives: the negotiated size or the size of
\* an earlier crop region
Descs == {[width |-> w, height |-> h] : w \in Dims, h \in Dims}

\* a buffer is about to be converted
ConvInit ==
    /\ StreamInit
    /\ fmt_session = NewFormatSession
    /\ life = NoLife
    /\ conv \in {[done |-> FALSE, buffer |-> b, desc |-> d] :
                    b \in Buffers, d \in Descs}

\* on_process, lines 670-693, on the buffer
Convert ==
    /\ ~conv.done
    /\ conv' = [done |-> TRUE, buffer |-> conv.buffer,
                desc_was |-> conv.desc,
                desc |-> crop_desc(conv.desc, meta_region(conv.buffer.meta)),
                crop |-> meta_region(conv.buffer.meta),
                frame |-> pw_frame_to_uv_frame_memcpy(
                              conv.buffer, meta_region(conv.buffer.meta))]
    /\ UNCHANGED <<streamVars, crop_opt, fmt_session, life>>

ConvNext == Convert

ConvSpec == ConvInit /\ [][ConvNext]_vars

\* --------------------------------------------------------------- lifecycle
\* the two init functions registered (lines 966-969 and below)
Entries == {"vidcap_screen_pw_init", "vidcap_pw_init"}

\* faulty variant: pw is declared first, hence destroyed last
MemberOrderPwFirst ==
    <<"pw", "in_flight_frame", "mut", "blank_frames", "sending_frames", "desc",
      "portal", "user_options">>

\* members of screen_cast_session in the order of their declaration (lines
\* 452-503); the destructor destroys them in the reverse order
MemberOrder ==
    <<"in_flight_frame", "mut", "blank_frames", "sending_frames", "desc",
      "portal", "user_options", "pw">>

\* faulty variant: the stream is destroyed before the loop is stopped
DtorOrderStreamFirst ==
    <<"pw_stream_destroy", "pw_thread_loop_stop", "pw_context_destroy",
      "pw_thread_loop_destroy">>

\* ~pw_, lines 492-498: the calls made when loop is not null, in order
DtorOrder ==
    <<"pw_thread_loop_stop", "pw_stream_destroy", "pw_context_destroy",
      "pw_thread_loop_destroy">>

\* faulty variant: the audio flag is not looked at
audio_ignored(flags) == FALSE

\* lines 888 and 920: vidcap_params_get_flags(params) & VIDCAP_FLAG_AUDIO_ANY
audio_any(flags) == flags.audio

\* the host calls an init function; nothing exists yet
NewLife(entry, audio) ==
    [pc |-> "init", entry |-> entry, flags |-> [audio |-> audio],
     ret |-> "none", allocated |-> FALSE, state |-> "unset", alive |-> <<>>,
     parsed |-> "no", pool |-> 0, fd |-> -1,
     loop |-> "null", context |-> "null", stream |-> "null",
     listener |-> FALSE, lock |-> "none", res |-> 0,
     thread |-> "none", quit |-> FALSE, handler |-> "none", calls |-> <<>>,
     log |-> <<>>]

LifeInit ==
    /\ StreamInit
    /\ fmt_session = NewFormatSession
    /\ conv = NoConversion
    /\ life \in {NewLife(e, a) : e \in Entries, a \in BOOLEAN}

\* every lifecycle step leaves the streaming state alone
LifeStep(l) ==
    /\ life' = l
    /\ UNCHANGED <<streamVars, crop_opt, fmt_session, conv>>

\* lines 888-890 / 920-922: audio was requested
InitAudio ==
    /\ life.pc = "init"
    /\ audio_any(life.flags)
    /\ LifeStep([life EXCEPT !.ret = "VIDCAP_INIT_AUDIO_NOT_SUPPORTED",
                             !.pc = "returned"])

\* lines 892-893 / 924-925: new screen_cast_session, *state = &session
InitAlloc ==
    /\ life.pc = "init"
    /\ ~audio_any(life.flags)
    /\ LifeStep([life EXCEPT !.allocated = TRUE, !.state = "session",
                             !.alive = MemberOrder, !.pc = "parse"])

\* parse_params, lines 849-884, and lines 897-899 / 929-931
ParseParams(result) ==
    /\ life.pc = "parse"
    /\ LifeStep([life EXCEPT
          !.parsed = result,
          !.ret = CASE result = "help" -> "VIDCAP_INIT_NOERR"
                    [] result = "invalid" -> "VIDCAP_INIT_FAIL"
                    [] OTHER -> @,
          !.pc = IF result = "ok" THEN "pool" ELSE "returned"])

\* lines 901-902 / 933-934: the pool is filled; vidcap_pw_init then sets
\* pw.fd = -1 (line 936) and goes on to start_pipewire
FillPool ==
    /\ life.pc = "pool"
    /\ LifeStep([life EXCEPT
          !.pool = QUEUE_SIZE,
          !.fd = -1,
          !.pc = IF life.entry = "vidcap_screen_pw_init" THEN "portal"
                 ELSE "start_pipewire"])

\* lines 904-911: the portal selects the target
PortalRun(pipewire_fd) ==
    /\ life.pc = "portal"
    /\ LifeStep(IF pipewire_fd = -1
                THEN [life EXCEPT !.ret = "VIDCAP_INIT_FAIL", !.pc = "returned"]
                ELSE [life EXCEPT !.fd = pipewire_fd, !.pc = "start_pipewire"])

\* start_pipewire, lines 744-748: the loop is created and locked, the
\* context is created
LoopNew ==
    /\ life.pc = "start_pipewire"
    /\ LifeStep([life EXCEPT !.loop = "created", !.lock = "caller",
                             !.context = "alive", !.pc = "loop_start"])

\* lines 750-769: the loop thread is started, the core connected, the
\* stream created and the handlers registered on it
LoopStart ==
    /\ life.pc = "loop_start"
    /\ LifeStep([life EXCEPT !.loop = "running", !.thread = "running",
                             !.stream = "alive", !.listener = TRUE,
                             !.pc = "connect"])

\* lines 806-818: pw_stream_connect; on failure start_pipewire returns -1
StreamConnect(res) ==
    /\ life.pc = "connect"
    /\ LifeStep([life EXCEPT !.res = res,
                             !.pc = IF res < 0 THEN "started" ELSE "activate"])

\* lines 820-822: the stream is activated, the loop unlocked
StreamActivate ==
    /\ life.pc = "activate"
    /\ LifeStep([life EXCEPT !.lock = "none", !.pc = "started"])

\* lines 914-915 / 939-940: start_pipewire's result is not looked at
InitReturn ==
    /\ life.pc = "started"
    /\ LifeStep([life EXCEPT !.ret = "VIDCAP_INIT_OK", !.pc = "returned"])

\* the handlers of stream_events (lines 721-736) that work on the session
Handlers ==
    {"on_stream_state_changed", "on_stream_param_changed", "on_process"}

\* the loop thread dispatches an event: it takes the loop lock and calls
\* the handler registered for it
HandlerCall(h) ==
    /\ life.thread = "running"
    /\ life.listener
    /\ life.stream = "alive"
    /\ life.lock = "none"
    /\ life.handler = "none"
    /\ LifeStep([life EXCEPT !.handler = h, !.lock = "loop"])

\* the handler returns to the loop
HandlerReturn ==
    /\ life.handler # "none"
    /\ LifeStep([life EXCEPT !.handler = "none", !.lock = "none"])

\* the handlers of stream_events that only write to the log
LogCallbacks ==
    {"on_stream_state_changed", "on_add_buffer", "on_remove_buffer", "on_drained"}

\* a log message: its level and its text without the values printed into it
Message(level, text) == [level |-> level, text |-> text]

\* lines 506-514 and 703-719: the messages the callback logs; error tells
\* whether on_stream_state_changed is passed an error string
callback_log(cb, error) ==
    CASE cb = "on_stream_state_changed" ->
            <<Message("LOG_LEVEL_INFO", "stream state changed")>>
            \o (IF error THEN <<Message("LOG_LEVEL_ERROR", "stream error")>>
                ELSE <<>>)
      [] cb = "on_drained" -> <<Message("LOG_LEVEL_VERBOSE", "pipewire: drained")>>
      [] cb = "on_add_buffer" ->
            <<Message("LOG_LEVEL_VERBOSE", "pipewire: add_buffer")>>
      [] cb = "on_remove_buffer" ->
            <<Message("LOG_LEVEL_VERBOSE", "pipewire: remove_buffer")>>

\* faulty variant: a stream error makes the callback ask the loop to quit
LogCallbackStops(cb, error) ==
    /\ life.thread = "running"
    /\ life.listener
    /\ life.stream = "alive"
    /\ life.lock = "none"
    /\ life.handler = "none"
    /\ LifeStep([life EXCEPT !.log = callback_log(cb, error),
                             !.quit = @ \/ error])

\* the loop thread dispatches an event to one of these callbacks, which runs
\* to its end; life.log holds what the callback that ran last has logged
LogCallback(cb, error) ==
    /\ life.thread = "running"
    /\ life.listener
    /\ life.stream = "alive"
    /\ life.lock = "none"
    /\ life.handler = "none"
    /\ LifeStep([life EXCEPT !.log = callback_log(cb, error)])

\* vidcap_screen_pw_done, lines 943-947: delete of the session the host got
\* from a successful init; the members are destroyed last to first
Done ==
    /\ life.pc = "returned"
    /\ life.ret = "VIDCAP_INIT_OK"
    /\ LifeStep([life EXCEPT !.pc = "delete"])

\* the member the destructor destroys next
LastAlive == life.alive[Len(life.alive)]

\* the call ~pw_ makes next
NextCall == DtorOrder[Len(life.calls) + 1]

\* line 492: pw_thread_loop_stop is called: the loop is told to quit
LoopStopCall ==
    /\ life.pc = "delete"
    /\ life.alive # <<>> /\ LastAlive = "pw"
    /\ life.loop # "null"
    /\ Len(life.calls) < Len(DtorOrder)
    /\ NextCall = "pw_thread_loop_stop"
    /\ LifeStep([life EXCEPT !.quit = TRUE, !.pc = "stopping"])

\* the loop thread, between two events and holding the loop lock, sees the
\* request and leaves its loop
LoopQuit ==
    /\ life.thread = "running"
    /\ life.quit
    /\ life.handler = "none"
    /\ life.lock = "none"
    /\ LifeStep([life EXCEPT !.thread = "exited", !.loop = "stopped"])

\* line 492: pw_thread_loop_stop returns once the loop thread has been joined
LoopStopReturn ==
    /\ life.pc = "stopping"
    /\ life.thread = "exited"
    /\ LifeStep([life EXCEPT !.calls = Append(@, "pw_thread_loop_stop"),
                             !.pc = "delete"])

\* lines 493-494
StreamDestroy ==
    /\ life.pc = "delete"
    /\ life.alive # <<>> /\ LastAlive = "pw"
    /\ Len(life.calls) < Len(DtorOrder)
    /\ NextCall = "pw_stream_destroy"
    /\ LifeStep([life EXCEPT !.stream = "destroyed", !.listener = FALSE,
                             !.calls = Append(@, "pw_stream_destroy")])

\* lines 495-496
ContextDestroy ==
    /\ life.pc = "delete"
    /\ life.alive # <<>> /\ LastAlive = "pw"
    /\ Len(life.calls) < Len(DtorOrder)
    /\ NextCall = "pw_context_destroy"
    /\ LifeStep([life EXCEPT !.context = "destroyed",
                             !.calls = Append(@, "pw_context_destroy")])

\* lines 497-498
LoopDestroy ==
    /\ life.pc = "delete"
    /\ life.alive # <<>> /\ LastAlive = "pw"
    /\ Len(life.calls) < Len(DtorOrder)
    /\ NextCall = "pw_thread_loop_destroy"
    /\ LifeStep([life EXCEPT !.loop = "destroyed",
                             !.calls = Append(@, "pw_thread_loop_destroy")])

\* lines 500-502: the fd is closed when it is positive; pw is destroyed
CloseFd ==
    /\ life.pc = "delete"
    /\ life.alive # <<>> /\ LastAlive = "pw"
    /\ Len(life.calls) = Len(DtorOrder)
    /\ LifeStep([life EXCEPT !.fd = IF @ > 0 THEN -1 ELSE @,
                             !.alive = SubSeq(@, 1, Len(@) - 1)])

\* the next member is destroyed; after the last one the session is freed
DestroyMember ==
    /\ life.pc = "delete"
    /\ life.alive # <<>> /\ LastAlive # "pw"
    /\ LifeStep([life EXCEPT
          !.alive = SubSeq(@, 1, Len(@) - 1),
          !.pool = IF LastAlive = "blank_frames" THEN 0 ELSE @,
          !.allocated = Len(life.alive) > 1,
          !.pc = IF Len(life.alive) > 1 THEN "delete" ELSE "done"])

\* file descriptors the portal hands over, or -1 for failure
PortalFds == {-1, 5}

LifeNext ==
    \/ InitAudio
    \/ InitAlloc
    \/ \E result \in {"ok", "help", "invalid"} : ParseParams(result)
    \/ FillPool
    \/ \E fd \in PortalFds : PortalRun(fd)
    \/ LoopNew
    \/ LoopStart
    \/ \E res \in {0, -1} : StreamConnect(res)
    \/ StreamActivate
    \/ InitReturn
    \/ \E h \in Handlers : HandlerCall(h)
    \/ HandlerReturn
    \/ \E cb \in LogCallbacks, error \in BOOLEAN : LogCallback(cb, error)
    \/ Done
    \/ LoopStopCall
    \/ LoopQuit
    \/ LoopStopReturn
    \/ StreamDestroy
    \/ ContextDestroy
    \/ LoopDestroy
    \/ CloseFd
    \/ DestroyMember

LifeSpec == LifeInit /\ [][LifeNext]_vars

\* ------------------------------------------------------------------- claims
\* steps of the consumer thread and of the PipeWire loop thread
GrabReturns == pc_g = "wait" /\ pc_g' = "idle"

\* C1: the queue changes only by on_process appending the frame it has just
\* filled at the tail, or by grab removing the head and returning it; every
\* frame grab returns is the oldest frame pushed and not yet returned, so
\* the frames come out in the order they were pushed, none reordered,
\* duplicated or skipped.
FifoOrder ==
    [][/\ sending_frames' # sending_frames =>
            \/ /\ pc_p = "push"
               /\ next_frame # NULL
               /\ sending_frames' = Append(sending_frames, next_frame)
            \/ /\ GrabReturns
               /\ sending_frames # <<>>
               /\ sending_frames' = Tail(sending_frames)
               /\ grab_ret' = Head(sending_frames)
       /\ (GrabReturns /\ grab_ret' # NULL) =>
            /\ sending_frames # <<>>
            /\ grab_ret' = Head(sending_frames)
            /\ sending_frames' = Tail(sending_frames)
      ]_vars

\* grab has returned a frame while two later frames wait in the queue
FifoWitness == pc_g = "idle" /\ grab_ret # NULL /\ Len(sending_frames) = 2

\* C2: every frame is owned by exactly one of pool, queue, in-flight slot and
\* the frame on_process is filling.
OwnedExactlyOnce == \A f \in LiveFrames : Owners(f) = 1

\* C3: the capture thread and the consumer thread both hold session.mut
\* whenever they are inside an operation on blank_frames.
PoolAccessLocked ==
    /\ pc_p = "pop" => mut = "pw"
    /\ pc_g = "inc" => mut = "consumer"

\* C4: pool, queue, in-flight slot and the frame being filled hold exactly
\* QUEUE_SIZE frames together.
FrameCountConstant == FramesHeld = 3

\* C5 (as stated): no frame is freed between init and teardown.
NoFrameFreed == ~freed

\* C5 (amended): grab never frees a frame; frames are freed by on_process
\* alone, which frees the frame it acquired and allocates a new one in its
\* place whenever the frame's shape differs from the descriptor.
FreedOnlyByOnProcess ==
    [][/\ (freed' # freed \/ frames' # frames) => pc_p = "pop"
       /\ (pc_p = "pop" /\ pc_p' = "push" /\ NeedsRealloc(next_frame, desc'))
            => freed'
      ]_vars

\* a frame has been replaced by on_process and grab has returned a frame
FreedWitness == freed /\ pc_g = "idle" /\ grab_ret # NULL

\* C6: on_process holds at most one buffer, and holds none when it dequeues
\* the next one or returns: each buffer is queued back exactly once.
BufferQueuedBack ==
    /\ pw_owned \in {0, 1}
    /\ pc_p = "idle" <=> pw_owned = 0

\* three buffers were converted and pushed, and all went back to the service
BufferQueuedBackWitness ==
    pc_p = "idle" /\ pw_owned = 0 /\ Len(sending_frames) = 3

\* C7: a buffer with payload that arrives while blank_frames is empty is
\* dropped: on_process takes no frame, pushes nothing, allocates and frees
\* nothing, leaves pool, queue and in-flight slot alone and queues the
\* buffer back.
DropOnEmptyPool ==
    [][/\ (pc_p = "idle" /\ pc_p' = "pop" /\ blank_finish = 0) =>
            /\ next_frame' = NULL
            /\ p_end' = 0
            /\ UNCHANGED <<blank_data, blank_finish, sending_frames,
                           in_flight_frame, frames, freed>>
       /\ (pc_p = "pop" /\ p_end = 0 /\ pc_p' # "pop") =>
            /\ pc_p' = "idle"
            /\ next_frame' = NULL
            /\ pw_owned' = pw_owned - 1
            /\ UNCHANGED <<blank_data, blank_finish, sending_frames,
                           in_flight_frame, frames, freed>>
      ]_vars

\* on_process found blank_frames empty for a buffer with payload
DropOnEmptyPoolWitness ==
    pc_p = "pop" /\ p_end = 0 /\ next_frame = NULL /\ pw_owned = 1

\* C8: whenever on_process is about to push, the queue holds fewer than
\* QUEUE_SIZE frames, so the push does not wait for the consumer.
PushNeverBlocks == pc_p = "push" => Len(sending_frames) < 3

\* on_process pushes into a queue that already holds two frames
PushNeverBlocksWitness == pc_p = "push" /\ Len(sending_frames) = 2

\* C9: a grab that finds the queue empty returns NULL only once 500 ms have
\* passed with the queue still empty, never waits longer than 500 ms, and at
\* 500 ms its only step is to return NULL.
GrabTimesOut ==
    [][/\ (GrabReturns /\ grab_ret' = NULL) =>
            /\ waited = 500
            /\ sending_frames = <<>>
            /\ in_flight_frame' = NULL
       /\ waited' <= 500
       /\ (pc_g = "wait" /\ sending_frames = <<>> /\ waited >= 500) =>
            (ENABLED GrabTimeout /\ ~ENABLED GrabTick)
      ]_vars

\* grab has waited 500 ms on the empty queue
GrabTimesOutWitness == pc_g = "wait" /\ waited = 500 /\ sending_frames = <<>>

\* C10: when grab's push_back returns, the frame that was in flight is in the
\* pool; the queue is popped only with the in-flight slot empty, and grab
\* returns the frame the in-flight slot then holds.
InFlightRecycledFirst ==
    [][/\ (pc_g = "inc" /\ pc_g' = "wait") =>
            blank_data[g_end + 1] \in {blank_data'[i] : i \in 1..blank_finish'}
       /\ GrabReturns =>
            (in_flight_frame = NULL /\ grab_ret' = in_flight_frame')
      ]_vars

\* C16: a delivery that follows another one converted at the same size, and
\* that leaves the descriptor as it was, does not reallocate its frame (the
\* previous delivery's frame is still the newest in the queue).
ReallocOnlyOnce ==
    [][(/\ pc_p = "pop" /\ pc_p' = "push"
        /\ sending_frames # <<>>
        /\ desc' = desc
        /\ frames'[next_frame] = frames[sending_frames[Len(sending_frames)]])
          => ~NeedsRealloc(next_frame, desc')
      ]_vars

\* C20: a dequeued buffer without payload is queued back and skipped: between
\* dequeue and queue-back on_process takes no frame and no lock, pushes
\* nothing, leaves descriptor, pool, queue and heap alone, and is then ready
\* to dequeue the next buffer.
EmptyBufferSkipped ==
    [][/\ pc_p' = "empty" =>
            /\ next_frame' = NULL
            /\ mut' # "pw"
       /\ (pc_p = "idle" /\ pc_p' = "empty") =>
            /\ pw_owned' = pw_owned + 1
            /\ UNCHANGED <<blank_data, blank_finish, sending_frames, desc,
                           raw_size, frames, freed, mut>>
       /\ (pc_p = "empty" /\ pc_p' # "empty") =>
            /\ pc_p' = "idle"
            /\ pw_owned' = pw_owned - 1
            /\ UNCHANGED <<blank_data, blank_finish, sending_frames, desc,
                           raw_size, frames, freed, mut, next_frame>>
      ]_vars

\* a buffer without payload was dequeued while a frame waits in the queue
EmptyBufferSkippedWitness ==
    pc_p = "empty" /\ pw_owned = 1 /\ sending_frames # <<>>

\* C19: an invocation of the format handler with a null parameter, with an
\* id other than Format, or with a format that is not video/raw leaves the
\* frame descriptor (all six fields) as it was and sends no buffer
\* parameters.
FormatMismatchIgnored ==
    [][LET s == fmt_session'
       IN  (\/ s.call.null
            \/ s.call.id # "Format"
            \/ s.media_type # "video"
            \/ s.media_subtype # "raw")
              => (s.desc = fmt_session.desc /\ s.out = NoParams)
      ]_vars

\* a format that is not raw video arrived after a successful negotiation
FormatMismatchIgnoredWitness ==
    /\ fmt_session.desc.width # 0
    /\ ~fmt_session.call.null /\ fmt_session.call.id = "Format"
    /\ fmt_session.media_type = "video" /\ fmt_session.media_subtype = "mjpg"
    /\ fmt_session.out = NoParams

\* the converted buffer carried a valid crop region and cropping is enabled
Cropped == conv.done /\ conv.crop.present

\* C17: with cropping enabled and a valid crop rectangle (x, y, w, h) inside
\* the image, the tile of the produced frame is w x h, line i of the output
\* is copied from line y + i of the source, and the first pixel of each
\* output line is the source pixel of column x.
CropCopiesRegion ==
    Cropped =>
        LET b == conv.buffer
            f == conv.frame
        IN  /\ f.width = b.meta.width /\ f.height = b.meta.height
            /\ \A i \in 0..(f.height - 1) :
                  /\ f.dst_p[i] = f.linesize * i
                  /\ [byte |-> f.src_p[i], sub |-> 0]
                       = SourcePixel(b, used_stride(b), b.meta.x, b.meta.y + i)

\* C18: without crop metadata, with an invalid region or with cropping
\* disabled, the tile of the produced frame has the negotiated size and line
\* i of the output is copied from the start of line i of the source.
FullImageWithoutCrop ==
    (conv.done /\ (~crop_opt \/ ~conv.buffer.meta.present
                   \/ conv.buffer.meta.width = 0 \/ conv.buffer.meta.height = 0)) =>
        LET b == conv.buffer
            f == conv.frame
        IN  /\ f.width = b.width /\ f.height = b.height
            /\ \A i \in 0..(f.height - 1) :
                  [byte |-> f.src_p[i], sub |-> 0]
                    = SourcePixel(b, used_stride(b), 0, i)

\* a buffer whose crop metadata is present but has no height was converted
\* with cropping enabled
FullImageWithoutCropWitness ==
    /\ conv.done /\ crop_opt
    /\ conv.buffer.meta.present
    /\ conv.buffer.meta.width > 0 /\ conv.buffer.meta.height = 0
    /\ conv.buffer.meta.x > 0
    /\ conv.frame.width = conv.buffer.width

\* elements of a sequence
Range(seq) == {seq[i] : i \in DOMAIN seq}

\* the members of the session the handlers work on
SharedMembers == {"in_flight_frame", "mut", "blank_frames", "sending_frames"}

\* pw_thread_loop_stop has returned
LoopStopReturned ==
    /\ life.calls # <<>>
    /\ life.calls[1] = "pw_thread_loop_stop"
    /\ life.thread = "exited"

\* C11: the destructor's teardown calls are made in the order loop stop,
\* stream destroy, context destroy, loop destroy, and stream, context and
\* loop are destroyed only after the loop-stop call has returned.
TeardownOrder ==
    /\ \E n \in 0..4 :
          life.calls = SubSeq(<<"pw_thread_loop_stop", "pw_stream_destroy",
                                "pw_context_destroy", "pw_thread_loop_destroy">>,
                              1, n)
    /\ ("destroyed" \in {life.stream, life.context, life.loop}) => LoopStopReturned
    /\ life.context = "destroyed" => life.stream = "destroyed"
    /\ life.loop = "destroyed" => life.context = "destroyed"

\* the destructor has made all four calls
TeardownOrderWitness ==
    /\ Len(life.calls) = 4
    /\ life.stream = "destroyed" /\ life.context = "destroyed"
    /\ life.loop = "destroyed"

\* C12: a handler runs only while the loop-stop call has not returned and
\* pool, queue, mutex and in-flight frame are alive; these members are
\* destroyed only after the loop-stop call has returned.
NoHandlerAfterStop ==
    /\ life.handler # "none" =>
          /\ ~LoopStopReturned
          /\ "pw_thread_loop_stop" \notin Range(life.calls)
          /\ SharedMembers \subseteq Range(life.alive)
    /\ (life.pc \in {"delete", "stopping", "done"}
        /\ ~(SharedMembers \subseteq Range(life.alive))) => LoopStopReturned
    /\ LoopStopReturned => life.handler = "none"

\* on_process is running while the destructor waits in the loop-stop call
NoHandlerAfterStopWitness ==
    life.pc = "stopping" /\ life.handler = "on_process" /\ life.quit

\* C13: when the portal returns pipewire_fd = -1, init returns the generic
\* failure and no session stays allocated, no loop is started and no handler
\* is registered.
PortalFailureAborts ==
    (/\ life.pc = "returned"
     /\ life.entry = "vidcap_screen_pw_init"
     /\ life.parsed = "ok"
     /\ life.loop = "null") =>
        /\ life.ret = "VIDCAP_INIT_FAIL"
        /\ ~life.allocated
        /\ life.thread = "none"
        /\ ~life.listener

\* C14: when pw_stream_connect fails, init returns a failure and no session
\* stays allocated.
ConnectFailureAborts ==
    (life.pc = "returned" /\ life.res < 0) =>
        /\ life.ret # "VIDCAP_INIT_OK"
        /\ ~life.allocated

\* C15: with audio requested, either init function returns
\* VIDCAP_INIT_AUDIO_NOT_SUPPORTED, and no session is allocated, no option
\* parsed, no frame allocated and no connection attempted.
AudioRejectedFirst ==
    life.flags.audio =>
        /\ life.pc \in {"init", "returned"}
        /\ life.pc = "returned" => life.ret = "VIDCAP_INIT_AUDIO_NOT_SUPPORTED"
        /\ ~life.allocated /\ life.state = "unset"
        /\ life.parsed = "no"
        /\ life.pool = 0
        /\ life.loop = "null" /\ life.stream = "null" /\ life.thread = "none"

\* vidcap_pw_init has returned for a request with audio
AudioRejectedFirstWitness ==
    /\ life.flags.audio
    /\ life.entry = "vidcap_pw_init"
    /\ life.pc = "returned"
    /\ life.ret = "VIDCAP_INIT_AUDIO_NOT_SUPPORTED"

\* C21: a step that changes the negotiated format or, outside on_process, the
\* descriptor leaves heap, pool, queue, in-flight slot and the frame being
\* filled alone; a frame is reallocated only by on_process between acquiring
\* it and pushing it, and exactly when its shape differs from the descriptor.
LazyRealloc ==
    [][/\ (pc_p # "pop" /\ (desc' # desc \/ raw_size' # raw_size)) =>
            UNCHANGED <<frames, blank_data, blank_finish, sending_frames,
                        in_flight_frame, next_frame, freed, reallocated>>
       /\ reallocated' => (pc_p' = "push" /\ next_frame' # NULL)
       /\ (reallocated' /\ ~reallocated) => (pc_p = "pop" /\ pc_p' = "push")
       /\ (pc_p = "pop" /\ pc_p' = "push") =>
            (reallocated' <=>
                ~video_desc_eq(video_desc_from_frame(next_frame), desc'))
      ]_vars

\* a frame converted at the former size lies in the pool after the format
\* has changed, while on_process has reallocated the frame it acquired
LazyReallocWitness ==
    /\ ~crop_opt
    /\ pc_p = "push" /\ reallocated
    /\ \E f \in PoolFrames :
          frames[f].width > 0 /\ ~video_desc_eq(video_desc_from_frame(f), desc)

\* C22: on_process overwrites the descriptor's width and height with the size
\* of the crop region when cropping is enabled and the buffer's crop metadata
\* is present and valid, and leaves them as they were in every other case.
DescFollowsCrop ==
    conv.done =>
        LET m == conv.buffer.meta
            valid == crop_opt /\ m.present /\ m.width # 0 /\ m.height # 0
        IN  /\ valid => conv.desc = [width |-> m.width, height |-> m.height]
            /\ ~valid => conv.desc = conv.desc_was

\* the descriptor was overwritten by a valid crop region of another size
DescFollowsCropWitness ==
    /\ conv.done /\ crop_opt
    /\ conv.buffer.meta.present
    /\ conv.buffer.meta.width # 0 /\ conv.buffer.meta.height # 0
    /\ conv.buffer.meta.width # conv.desc_was.width
    /\ conv.desc # conv.desc_was

\* C23: after a successful negotiation the descriptor's frame rate is the
\* fixed framerate when its numerator is not zero, else the maximum framerate
\* when its numerator is not zero, else 60; interlacing is progressive and
\* the tile count is 1 in each case.
FpsFallback ==
    LET s == fmt_session
        r == s.raw
    IN  (/\ ~s.call.null /\ s.call.id = "Format"
         /\ s.media_type = "video" /\ s.media_subtype = "raw") =>
            /\ r.framerate.num # 0 => s.desc.fps = r.framerate
            /\ (r.framerate.num = 0 /\ r.max_framerate.num # 0) =>
                  s.desc.fps = r.max_framerate
            /\ (r.framerate.num = 0 /\ r.max_framerate.num = 0) =>
                  s.desc.fps = [num |-> 60, denom |-> 1]
            /\ s.desc.interlacing = "PROGRESSIVE"
            /\ s.desc.tile_count = 1

\* a format with neither a fixed nor a maximum framerate was negotiated
FpsFallbackWitness ==
    /\ ~fmt_session.call.null /\ fmt_session.call.id = "Format"
    /\ fmt_session.media_type = "video" /\ fmt_session.media_subtype = "raw"
    /\ fmt_session.raw.framerate.num = 0
    /\ fmt_session.raw.max_framerate.num = 0
    /\ fmt_session.desc.fps.num = 60
    /\ fmt_session.desc.tile_count = 1

\* C24: a run of the state-changed, buffer-add, buffer-remove or drained
\* callback changes nothing but the log: pool, queue, in-flight slot,
\* descriptor, loop, context, stream and listener stay as they were, also
\* when the state-changed callback is passed an error string, after which
\* the loop thread still runs and no teardown has begun.
CallbacksLeaveState ==
    [][life'.log # life.log =>
          /\ life' = [life EXCEPT !.log = life'.log]
          /\ UNCHANGED <<streamVars, crop_opt, fmt_session, conv>>
          /\ life'.thread = "running" /\ life'.stream = "alive"
          /\ life'.listener /\ life'.loop = "running"
      ]_vars

\* the state-changed callback has logged an error string and the session is
\* up as before
CallbacksLeaveStateWitness ==
    /\ Len(life.log) = 2
    /\ life.log[2].text = "stream error"
    /\ life.pc = "returned" /\ life.ret = "VIDCAP_INIT_OK"
    /\ life.thread = "running" /\ life.stream = "alive" /\ ~life.quit

\* C25: the error string of a stream state transition is logged at warning
\* level.
ErrorLoggedAsWarning ==
    \A i \in DOMAIN life.log :
        life.log[i].text = "stream error" => life.log[i].level = "LOG_LEVEL_WARNING"

\* C30: once start_pipewire has returned, to init and ever after, the loop
\* lock it took is not held by the calling thread.
LoopLockReleased ==
    life.pc \in {"started", "returned", "delete", "stopping", "done"} =>
        life.lock # "caller"

\* C26 (as stated): the stride used is chunk_size / image_height when that
\* quotient differs from the line size expected for the negotiated width,
\* and the reported stride otherwise.
StrideOnMismatch ==
    conv.done =>
        LET b == conv.buffer
            implied == b.chunk_size \div b.height
            expected == vc_get_linesize(b.width, uv_codec_from_pw_fmt(b.format))
        IN  conv.frame.stride = IF implied # expected THEN implied ELSE b.stride

\* C26 (amended): the stride used is chunk_size / image_height, with the
\* negotiated height also under a crop, when the reported stride is zero, and
\* the reported stride otherwise; consecutive source lines are that far apart.
StrideOnZero ==
    conv.done =>
        LET b == conv.buffer
            f == conv.frame
        IN  /\ b.stride = 0 => f.stride = b.chunk_size \div b.height
            /\ b.stride # 0 => f.stride = b.stride
            /\ \A i \in 0..(f.height - 1) : f.src_p[i] = f.src_p[0] + f.stride * i

\* a buffer reporting no stride was converted under a crop region lower than
\* the image
StrideOnZeroWitness ==
    /\ conv.done /\ conv.crop.present
    /\ conv.buffer.stride = 0
    /\ conv.crop.height < conv.buffer.height
    /\ conv.buffer.chunk_size \div conv.crop.height # conv.frame.stride
    /\ conv.frame.stride * conv.buffer.height <= conv.buffer.chunk_size
    /\ conv.frame.stride > 0

\* C27: for the source formats BGRA and BGRx every pixel of every output
\* line has the third byte of its source pixel as first byte and the first
\* byte of its source pixel as third byte; for every other format each
\* output line is, byte for byte, the segment of the source line it starts at.
ChannelSwap ==
    conv.done =>
        LET b == conv.buffer
            f == conv.frame
        IN  \A i \in 0..(f.height - 1) :
                IF b.format \in {"BGRA", "BGRx"}
                THEN \A px \in 0..(f.width - 1) :
                        /\ f.data[i][4 * px] = f.src_p[i] + 4 * px + 2
                        /\ f.data[i][4 * px + 2] = f.src_p[i] + 4 * px
                ELSE /\ DOMAIN f.data[i] = 0..(f.linesize - 1)
                     /\ \A k \in 0..(f.linesize - 1) :
                            f.data[i][k] = f.src_p[i] + k

\* a BGRx buffer two pixels wide was converted: the first byte of the second
\* output pixel is the third byte of the second source pixel
ChannelSwapWitness ==
    /\ conv.done
    /\ conv.buffer.format = "BGRx"
    /\ conv.frame.width = 2 /\ conv.frame.height = 2
    /\ conv.frame.data[1][4] = conv.frame.src_p[1] + 6
    /\ conv.frame.data[1][6] = conv.frame.src_p[1] + 4

\* bytes of a tile or an allocation of this width and height (four bytes a
\* pixel)
FrameBytes(t) == vc_get_linesize(t.width, "RGBA") * t.height

\* C28: the buffer on_process converts into is large enough for the width and
\* height the converter copies: a buffer allocated for this delivery has the
\* size of the descriptor, and a buffer kept from an earlier delivery held
\* that delivery's tile, which the tile copied now must not exceed.
AllocCoversCopy ==
    [][(pc_p = "pop" /\ pc_p' = "push") =>
          /\ reallocated' => FrameBytes(frames'[next_frame]) <= FrameBytes(desc')
          /\ ~reallocated' =>
                FrameBytes(frames'[next_frame]) <= FrameBytes(frames[next_frame])
      ]_vars

\* C29: whenever the pool holds no frame, a frame is in flight, in the queue
\* or being filled, from where the next two grab calls bring one back to the
\* pool.
PoolRefilled ==
    PoolFrames = {} =>
        (in_flight_frame # NULL \/ sending_frames # <<>> \/ next_frame # NULL)

====
